---- MODULE Spec2Model ----
(***************************************************************************)
(* A model of the IMA/QEMU end-to-end test harness of buckos-build         *)
(* (tests/test_ima_qemu.py): the cpio newc archive builder, the initramfs  *)
(* builder, the ext4 image builder, the QEMU runner and the pytest session *)
(* that ties them together.                                                *)
(*                                                                         *)
(* Bytes are integers 0..255; a str or bytes value is a sequence of them   *)
(* (ASCII codes for text).                                                 *)
(***************************************************************************)
EXTENDS Integers, Sequences, FiniteSets, TLC

VARIABLES
    \* ---- archive builder (one _cpio_entry call, or an archive being composed)
    cpio_pc,     \* "idle" | "called" | "writing" | "closed" | "read"
    last,        \* arguments and result of the last direct _cpio_entry call
    entries,     \* (name, mode, data) of the entries written to the archive
    archive,     \* bytes of the archive composed so far
    decoded,     \* what a newc reader recovered from the archive
    \* ---- build_initramfs (two runs on the same input bytes)
    in_files,    \* bytes of the init binary and of the certificate
    runs,        \* per run: environment, program counter, locals, result
    \* ---- build_ext4_image (concurrent invocations sharing tmp_dir)
    tmp_names,   \* names mkdtemp has created under tmp_dir
    inv,         \* per invocation: arguments, program counter, locals
    \* ---- pytest session of TestImaQemu
    env,         \* the host: tools on PATH, /dev/kvm, key files, buck-out
    fx,          \* cached results of the session-scoped fixtures
    tcur,        \* index of the test being run (1..3), 4 when all have run
    tpc,         \* position inside the current test
    output,      \* console text run_qemu returned to the current test
    timed_out,   \* whether the emulator of the current test hit the timeout
    outcome,     \* pytest outcome of each test
    teardown,    \* state of the session teardown
    \* ---- _buck2_build (one call, from the buck2 run to the returned path)
    b2,          \* exit status, stdout, lines still to look at, result
    \* ---- pytest sessions sharing one repo_root / "buck-out"
    buck_out,    \* entries directly under buck-out: (name, kind)
    daemons,     \* isolation names whose buck2 daemon is alive
    killed,      \* isolation names a "buck2 kill" was issued for
    stale,       \* the entries buck-out held before the sessions started
    sess,        \* per session: program counter, builds, teardown listing
    \* ---- tools/_env.py and tools/kernel_headers.py (one process)
    host_environ, \* os.environ as the process inherited it
    os_environ,  \* os.environ now
    cleaned,     \* what the last clean_env() call returned, with the
                 \* os.environ it was called on
    sanitized,   \* number of sanitize_global_env() calls so far
    kh           \* kernel_headers.main: arguments, program counter, effects

cpioVars == <<cpio_pc, last, entries, archive, decoded>>
ramfsVars == <<in_files, runs>>
ext4Vars == <<tmp_names, inv>>
testVars == <<env, fx, tcur, tpc, output, timed_out, outcome, teardown>>
buckVars == <<b2>>
isoVars == <<buck_out, daemons, killed, stale, sess>>
envVars == <<host_environ, os_environ, cleaned, sanitized>>
khVars == <<kh>>
toolVars == <<buckVars, isoVars, envVars, khVars>>
vars == <<cpioVars, ramfsVars, ext4Vars, testVars, toolVars>>

(***************************************************************************)
(* Text constants of the source, as ASCII codes.                           *)
(***************************************************************************)
\* "070701"
Magic == <<48, 55, 48, 55, 48, 49>>
\* "TRAILER!!!"
TrailerName == <<84, 82, 65, 73, 76, 69, 82, 33, 33, 33>>
\* "."
RootName == <<46>>
\* "dev", "etc", "etc/keys", "mnt", "proc", "sys"
FixedDirs == << <<100, 101, 118>>, <<101, 116, 99>>,
                <<101, 116, 99, 47, 107, 101, 121, 115>>,
                <<109, 110, 116>>, <<112, 114, 111, 99>>, <<115, 121, 115>> >>
\* "etc/keys/x509_ima.der"
CertName == <<101, 116, 99, 47, 107, 101, 121, 115, 47, 120, 53, 48, 57, 95,
              105, 109, 97, 46, 100, 101, 114>>
\* "init"
InitName == <<105, 110, 105, 116>>

DirMode == 16877       \* 0o40755
CertMode == 33188      \* 0o100644
InitMode == 33261      \* 0o100755
TrailerMode == 0

(***************************************************************************)
(* Bounds of the model.                                                    *)
(***************************************************************************)
MaxLen == 4            \* longest content drawn for an entry (besides 100)
MaxEntries == 2        \* entries composed into one archive before the trailer

Zeros(n) == [i \in 1..n |-> 0]

\* n bytes, the first one being (first) and the following ones counting up
Bytes(n, first) == [i \in 1..n |-> (first + i - 1) % 256]

(***************************************************************************)
(* Python's format spec 08X: uppercase hexadecimal, zero-padded to a       *)
(* MINIMUM width of 8 (a sign counts in the width; longer numbers are not  *)
(* cut).                                                                   *)
(***************************************************************************)
HexChar(d) == IF d < 10 THEN 48 + d ELSE 55 + d

RECURSIVE HexDigits(_)
HexDigits(n) ==
    IF n < 16 THEN <<HexChar(n)>>
    ELSE HexDigits(n \div 16) \o <<HexChar(n % 16)>>

\* mutant: lowercase digits (format spec 08x)
Fmt08XLower(v) ==
    LET low(c) == IF c >= 65 THEN c + 32 ELSE c
        d == HexDigits(v)
        p == IF Len(d) >= 8 THEN d ELSE [i \in 1..(8 - Len(d)) |-> 48] \o d
    IN [i \in 1..Len(p) |-> low(p[i])]

Fmt08X(v) ==
    IF v >= 0
    THEN LET d == HexDigits(v)
         IN IF Len(d) >= 8 THEN d ELSE [i \in 1..(8 - Len(d)) |-> 48] \o d
    ELSE LET d == HexDigits(-v)
         IN <<45>> \o (IF Len(d) >= 7 THEN d
                       ELSE [i \in 1..(7 - Len(d)) |-> 48] \o d)

_cpio_header(ino, mode, uid, gid, nlink, mtime, filesize, devmajor, devminor, rdevmajor, rdevminor, namesize) ==
    Magic \o Fmt08X(ino) \o Fmt08X(mode) \o Fmt08X(uid) \o Fmt08X(gid)
          \o Fmt08X(nlink) \o Fmt08X(mtime) \o Fmt08X(filesize)
          \o Fmt08X(devmajor) \o Fmt08X(devminor) \o Fmt08X(rdevmajor)
          \o Fmt08X(rdevminor) \o Fmt08X(namesize) \o Fmt08X(0)

\* mutant: the padding is emitted without the "if pos % 4" test
_cpio_entry_always_pads(name, data, mode, ino, nlink) ==
    LET namesize == Len(name) + 1
        hdr == _cpio_header(ino, mode, 0, 0, nlink, 0, Len(data), 0, 0, 0, 0,
                            namesize)
        pos == Len(hdr) + namesize
    IN hdr \o name \o <<0>> \o Zeros(4 - (pos % 4))
           \o data \o Zeros(4 - (Len(data) % 4))

\* mutant: namesize does not count the terminating NUL
_cpio_entry_namesize_no_nul(name, data, mode, ino, nlink) ==
    LET namesize == Len(name)
        hdr == _cpio_header(ino, mode, 0, 0, nlink, 0, Len(data), 0, 0, 0, 0,
                            namesize)
        pos == Len(hdr) + namesize
    IN hdr \o name \o <<0>>
           \o (IF pos % 4 # 0 THEN Zeros(4 - (pos % 4)) ELSE <<>>)
           \o data
           \o (IF Len(data) % 4 # 0 THEN Zeros(4 - (Len(data) % 4)) ELSE <<>>)

_cpio_entry(name, data, mode, ino, nlink) ==
    LET namesize == Len(name) + 1
        hdr == _cpio_header(ino, mode, 0, 0, nlink, 0, Len(data), 0, 0, 0, 0,
                            namesize)
        pos == Len(hdr) + namesize
    IN hdr \o name \o <<0>>
           \o (IF pos % 4 # 0 THEN Zeros(4 - (pos % 4)) ELSE <<>>)
           \o data
           \o (IF Len(data) % 4 # 0 THEN Zeros(4 - (Len(data) % 4)) ELSE <<>>)

_cpio_dir(name, ino) == _cpio_entry(name, <<>>, DirMode, ino, 2)

_cpio_trailer == _cpio_entry(TrailerName, <<>>, TrailerMode, 0, 1)

(***************************************************************************)
(* The archive builder driven by a caller.                                 *)
(***************************************************************************)
NoCall == [called |-> FALSE]

\* names a caller may pass: empty, short, the harness's own, the sentinel
EntryNames == {<<>>, <<97>>, InitName, FixedDirs[3], TrailerName}

EntryContents ==
    {Bytes(n, f) : n \in (0..MaxLen) \cup {100}, f \in {0, 48}}

\* for a composed archive: name lengths 1, 3, 4 and 10 put the end of the
\* name at every residue modulo 4, and so do the content lengths
ArchiveNames == {<<97>>, FixedDirs[1], InitName, TrailerName}

ArchiveContents == {Bytes(n, 0) : n \in 0..(MaxLen - 1)}

EntryModes == {TrailerMode, DirMode, CertMode, InitMode}

EntryInos == {0, 1, 5, 9, 255, 2147483647}

CpioInit ==
    /\ cpio_pc = "idle"
    /\ last = NoCall
    /\ entries = <<>>
    /\ archive = <<>>
    /\ decoded = <<>>

\* one direct call of _cpio_entry
CallEntry ==
    /\ cpio_pc = "idle"
    /\ \E name \in EntryNames, data \in EntryContents, mode \in EntryModes,
          ino \in EntryInos, nlink \in {1, 2} :
          last' = [called |-> TRUE, name |-> name, data |-> data,
                   mode |-> mode, ino |-> ino, nlink |-> nlink,
                   out |-> _cpio_entry(name, data, mode, ino, nlink)]
    /\ cpio_pc' = "called"
    /\ UNCHANGED <<entries, archive, decoded>>
    /\ UNCHANGED <<ramfsVars, ext4Vars, testVars, toolVars>>

\* entries.write(_cpio_entry(name, data, mode=..., ino=ino)); ino += 1
AddFile ==
    /\ cpio_pc \in {"idle", "writing"}
    /\ Len(entries) < MaxEntries
    /\ \E name \in ArchiveNames, data \in ArchiveContents,
          mode \in {CertMode, InitMode} :
          /\ archive' = archive
                 \o _cpio_entry(name, data, mode, Len(entries) + 1, 1)
          /\ entries' = Append(entries,
                               [name |-> name, mode |-> mode, data |-> data])
    /\ cpio_pc' = "writing"
    /\ UNCHANGED <<last, decoded>>
    /\ UNCHANGED <<ramfsVars, ext4Vars, testVars, toolVars>>

\* entries.write(_cpio_dir(d, ino)); ino += 1
AddDir ==
    /\ cpio_pc \in {"idle", "writing"}
    /\ Len(entries) < MaxEntries
    /\ \E name \in ArchiveNames :
          /\ archive' = archive \o _cpio_dir(name, Len(entries) + 1)
          /\ entries' = Append(entries,
                               [name |-> name, mode |-> DirMode, data |-> <<>>])
    /\ cpio_pc' = "writing"
    /\ UNCHANGED <<last, decoded>>
    /\ UNCHANGED <<ramfsVars, ext4Vars, testVars, toolVars>>

\* entries.write(_cpio_trailer())
AddTrailer ==
    /\ cpio_pc \in {"idle", "writing"}
    /\ archive' = archive \o _cpio_trailer
    /\ cpio_pc' = "closed"
    /\ UNCHANGED <<last, entries, decoded>>
    /\ UNCHANGED <<ramfsVars, ext4Vars, testVars, toolVars>>

(***************************************************************************)
(* A newc reader: header (tag, 13 fields of 8 hex digits), namesize bytes  *)
(* of name ending in NUL, padding to a multiple of 4, filesize bytes of    *)
(* content, padding to a multiple of 4; it stops at the entry named        *)
(* TRAILER!!!.                                                             *)
(***************************************************************************)
HexVal(c) == IF c >= 48 /\ c <= 57 THEN c - 48 ELSE c - 55

RECURSIVE ParseHex(_)
ParseHex(s) ==
    IF s = <<>> THEN 0
    ELSE 16 * ParseHex(SubSeq(s, 1, Len(s) - 1)) + HexVal(s[Len(s)])

Align4(n) == n + ((4 - (n % 4)) % 4)

\* field k (1..13) of the header that starts at offset p (0-based)
HeaderField(buf, p, k) == SubSeq(buf, p + 6 + 8 * (k - 1) + 1, p + 6 + 8 * k)

RECURSIVE NewcRead(_, _)
NewcRead(buf, p) ==
    IF p + 110 > Len(buf) THEN <<>>
    ELSE LET mode == ParseHex(HeaderField(buf, p, 2))
             filesize == ParseHex(HeaderField(buf, p, 7))
             namesize == ParseHex(HeaderField(buf, p, 12))
             name == SubSeq(buf, p + 110 + 1, p + 110 + namesize - 1)
             start == Align4(p + 110 + namesize)
             data == SubSeq(buf, start + 1, start + filesize)
         IN IF name = TrailerName THEN <<>>
            ELSE <<[name |-> name, mode |-> mode, data |-> data]>>
                     \o NewcRead(buf, Align4(start + filesize))

ReadBack ==
    /\ cpio_pc = "closed"
    /\ decoded' = NewcRead(archive, 0)
    /\ cpio_pc' = "read"
    /\ UNCHANGED <<last, entries, archive>>
    /\ UNCHANGED <<ramfsVars, ext4Vars, testVars, toolVars>>

(***************************************************************************)
(* The components a specification leaves at rest.                          *)
(***************************************************************************)
CpioIdle == CpioInit
RamfsIdle == in_files = [init |-> <<>>, cert |-> <<>>] /\ runs = <<>>
Ext4Idle == tmp_names = {} /\ inv = <<>>
TestIdle ==
    /\ env = [tools |-> {}]
    /\ fx = <<>>
    /\ tcur = 0
    /\ tpc = "idle"
    /\ output = <<>>
    /\ timed_out = FALSE
    /\ outcome = <<>>
    /\ teardown = "idle"
Buck2Idle == b2 = [pc |-> "idle"]
IsoIdle ==
    /\ buck_out = {}
    /\ daemons = {}
    /\ killed = {}
    /\ stale = {}
    /\ sess = <<>>
EnvIdle ==
    /\ host_environ = <<>>
    /\ os_environ = <<>>
    /\ cleaned = <<>>
    /\ sanitized = 0
KhIdle == kh = [pc |-> "idle"]
ToolsIdle == Buck2Idle /\ IsoIdle /\ EnvIdle /\ KhIdle

(***************************************************************************)
(* gzip.GzipFile(fileobj=buf, mode="wb", mtime=...): a 10-byte member      *)
(* header whose MTIME field is the mtime argument, or the wall clock when  *)
(* the argument is None; no FNAME (a BytesIO has no name); the deflate     *)
(* stream; CRC and ISIZE.  The deflate stream is modelled as one stored    *)
(* block and the CRC as a byte sum: both are functions of the input bytes  *)
(* alone, as the real ones are.                                            *)
(***************************************************************************)
None == -1

LE16(n) == <<n % 256, (n \div 256) % 256>>
LE32(n) == LE16(n % 65536) \o LE16(n \div 65536)

RECURSIVE RangeSum(_, _, _)
RangeSum(b, lo, hi) ==
    IF lo > hi THEN 0
    ELSE IF lo = hi THEN b[lo]
    ELSE LET mid == (lo + hi) \div 2
         IN (RangeSum(b, lo, mid) + RangeSum(b, mid + 1, hi)) % 65536

ByteSum(b) == RangeSum(b, 1, Len(b))

Deflate(raw) == <<1>> \o LE16(Len(raw)) \o LE16(65535 - Len(raw)) \o raw

GzipWrite(raw, mtime, now) ==
    <<31, 139, 8, 0>> \o LE32(IF mtime = None THEN now ELSE mtime)
        \o <<2, 255>> \o Deflate(raw) \o LE32(ByteSum(raw)) \o LE32(Len(raw))

(***************************************************************************)
(* build_initramfs(init_path, cert_der_path), one step per statement.  A   *)
(* run has an environment the function could read but must not depend on:  *)
(* the wall clock, and the paths, timestamps and owner of its input files. *)
(***************************************************************************)
RunIds == {1, 2}

Clocks == {100, 200}
FileStats == {[path |-> 1, mtime |-> 3, uid |-> 0],
              [path |-> 2, mtime |-> 4, uid |-> 1000]}

InitDatas == {Bytes(n, 127) : n \in {1, MaxLen}}
CertDatas == {Bytes(n, 48) : n \in {0, 3}}

NewRun(clock, stat) ==
    [clock |-> clock, stat |-> stat, pc |-> "start", ino |-> 0, di |-> 0,
     init_data |-> <<>>, cert_data |-> <<>>, written |-> <<>>,
     raw |-> <<>>, out |-> <<>>]

RamfsInit ==
    /\ in_files \in [init : InitDatas, cert : CertDatas]
    /\ \E c1 \in Clocks, c2 \in Clocks, s1 \in FileStats, s2 \in FileStats :
          runs = <<NewRun(c1, s1), NewRun(c2, s2)>>

RECURSIVE Concat(_)
Concat(chunks) ==
    IF chunks = <<>> THEN <<>> ELSE chunks[1] \o Concat(Tail(chunks))

\* mutant: the counter is not advanced
NextInoStuck(ino) == ino

\* ino += 1
NextIno(ino) == ino + 1

\* entries.write(chunk); ino += 1
Emit(r, chunk, pc) ==
    runs' = [runs EXCEPT ![r].written = Append(@, chunk),
                         ![r].ino = NextIno(@),
                         ![r].pc = pc]

\* init_data = init_path.read_bytes(); cert_data = ...; ino = 1
ReadInputs(r) ==
    /\ runs[r].pc = "start"
    /\ IF r = 1 THEN TRUE ELSE runs[r - 1].pc = "done"
    /\ runs' = [runs EXCEPT ![r].init_data = in_files.init,
                            ![r].cert_data = in_files.cert,
                            ![r].ino = 1,
                            ![r].pc = "root"]
    /\ UNCHANGED <<in_files, cpioVars, ext4Vars, testVars, toolVars>>

WriteRoot(r) ==
    /\ runs[r].pc = "root"
    /\ Emit(r, _cpio_dir(RootName, runs[r].ino), "dirs")
    /\ UNCHANGED <<in_files, cpioVars, ext4Vars, testVars, toolVars>>

\* for d in ("dev", "etc", "etc/keys", "mnt", "proc", "sys"): ...
WriteFixedDir(r) ==
    /\ runs[r].pc = "dirs"
    /\ runs[r].di < Len(FixedDirs)
    /\ runs' = [runs EXCEPT
                  ![r].written =
                      Append(@, _cpio_dir(FixedDirs[runs[r].di + 1], runs[r].ino)),
                  ![r].ino = NextIno(@),
                  ![r].di = @ + 1]
    /\ UNCHANGED <<in_files, cpioVars, ext4Vars, testVars, toolVars>>

WriteCert(r) ==
    /\ runs[r].pc = "dirs"
    /\ runs[r].di = Len(FixedDirs)
    /\ Emit(r, _cpio_entry(CertName, runs[r].cert_data, CertMode, runs[r].ino, 1),
            "init")
    /\ UNCHANGED <<in_files, cpioVars, ext4Vars, testVars, toolVars>>

WriteInit(r) ==
    /\ runs[r].pc = "init"
    /\ Emit(r, _cpio_entry(InitName, runs[r].init_data, InitMode, runs[r].ino, 1),
            "trailer")
    /\ UNCHANGED <<in_files, cpioVars, ext4Vars, testVars, toolVars>>

\* entries.write(_cpio_trailer()); raw = entries.getvalue()
WriteTrailer(r) ==
    /\ runs[r].pc = "trailer"
    /\ runs' = [runs EXCEPT ![r].written = Append(@, _cpio_trailer),
                            ![r].raw = Concat(Append(runs[r].written,
                                                     _cpio_trailer)),
                            ![r].pc = "gzip"]
    /\ UNCHANGED <<in_files, cpioVars, ext4Vars, testVars, toolVars>>

\* mutant: GzipFile without mtime=0 stamps the member with the wall clock
GzipOfArchiveNow(raw, clock) == GzipWrite(raw, None, clock)

\* with gzip.GzipFile(fileobj=buf, mode="wb", mtime=0) as gz: gz.write(raw)
GzipOfArchive(raw, clock) == GzipWrite(raw, 0, clock)

Compress(r) ==
    /\ runs[r].pc = "gzip"
    /\ runs' = [runs EXCEPT ![r].out = GzipOfArchive(runs[r].raw, runs[r].clock),
                            ![r].pc = "done"]
    /\ UNCHANGED <<in_files, cpioVars, ext4Vars, testVars, toolVars>>

InitRamfs == RamfsInit /\ CpioIdle /\ Ext4Idle /\ TestIdle /\ ToolsIdle

NextRamfs ==
    \E r \in RunIds :
        \/ ReadInputs(r)
        \/ WriteRoot(r)
        \/ WriteFixedDir(r)
        \/ WriteCert(r)
        \/ WriteInit(r)
        \/ WriteTrailer(r)
        \/ Compress(r)

SpecRamfs == InitRamfs /\ [][NextRamfs]_vars

(***************************************************************************)
(* build_ext4_image(binary_path, tmp_dir, signed, key_path): invocations   *)
(* that share tmp_dir, one step per statement that touches the file system *)
(* or runs a tool.  The tools' exit statuses, and whether evmctl leaves a  *)
(* .sig file, are the environment's choice.                                *)
(***************************************************************************)
InvIds == {1, 2}

\* run_qemu invocations sharing the same tmp_dir
QemuIds == {3}

NumDirNames == 3       \* names mkdtemp can draw under tmp_dir

DirNames == 1..NumDirNames

NotRun == -1

NewInv(signed, has_key) ==
    [signed |-> signed, has_key |-> has_key, pc |-> "start", work |-> 0,
     cmds |-> <<>>, batch |-> <<>>, sig_exists |-> FALSE,
     rc |-> [mke2fs |-> NotRun, evmctl |-> NotRun, debugfs |-> NotRun],
     calls |-> [mke2fs |-> 0, evmctl |-> 0, debugfs |-> 0],
     wrote |-> {}, raised_at |-> "", result |-> ""]

\* run_qemu(kernel, initramfs_data, disk, cmdline_extra, tmp_dir, timeout)
NewQemu ==
    [pc |-> "start", work |-> 0, wrote |-> {}, raised_at |-> "", result |-> ""]

Ext4Init ==
    /\ tmp_names = {}
    /\ \E s1 \in BOOLEAN, k1 \in BOOLEAN, s2 \in BOOLEAN, k2 \in BOOLEAN :
          inv = <<NewInv(s1, k1), NewInv(s2, k2), NewQemu>>

\* mutant: subprocess.run without check=True goes on whatever the status
AfterRunUnchecked(rc, next) == next

\* subprocess.run(..., check=True): a non-zero status raises
AfterRun(rc, next) == IF rc = 0 THEN next ELSE "raised"

\* mutant: the signer run with check=True
AfterSignerChecked(rc) == IF rc = 0 THEN "check_sig" ELSE "raised"

\* subprocess.run(["evmctl", ...], capture_output=True): the status is dropped
AfterSigner(rc) == "check_sig"

\* mutant: a directory name drawn without looking at what tmp_dir holds
mkdtemp_any_name(existing) == DirNames

\* tempfile.mkdtemp(dir=tmp_dir) creates a directory that did not exist: the
\* names it can return are those not yet in tmp_dir
mkdtemp(existing) == DirNames \ existing

\* work = Path(tempfile.mkdtemp(dir=tmp_dir))
Mkdtemp(i) ==
    /\ inv[i].pc = "start"
    /\ \E n \in mkdtemp(tmp_names) :
          /\ tmp_names' = tmp_names \cup {n}
          /\ inv' = [inv EXCEPT ![i].work = n, ![i].pc = "mkdir"]
    /\ UNCHANGED <<cpioVars, ramfsVars, testVars, toolVars>>

\* empty_dir = work / "empty"; empty_dir.mkdir()
MkEmptyDir(i) ==
    /\ inv[i].pc = "mkdir"
    /\ inv' = [inv EXCEPT ![i].wrote = @ \cup {<<inv[i].work, "empty">>},
                          ![i].pc = "mke2fs"]
    /\ UNCHANGED <<tmp_names, cpioVars, ramfsVars, testVars, toolVars>>

\* subprocess.run(["mke2fs", ..., str(img), "8M"], check=True, ...)
Mke2fs(i) ==
    /\ inv[i].pc = "mke2fs"
    /\ \E rc \in {0, 1} :
          inv' = [inv EXCEPT
                    ![i].rc.mke2fs = rc,
                    ![i].calls.mke2fs = @ + 1,
                    ![i].wrote = @ \cup {<<inv[i].work, "disk.img">>},
                    ![i].pc = AfterRun(rc, "cmds"),
                    ![i].raised_at = IF AfterRun(rc, "cmds") = "raised"
                                     THEN "mke2fs" ELSE @]
    /\ UNCHANGED <<tmp_names, cpioVars, ramfsVars, testVars, toolVars>>

\* cmds = [write ..., set_inode_field ...]; if signed: assert key_path is not None
BuildCmds(i) ==
    /\ inv[i].pc = "cmds"
    /\ inv' = [inv EXCEPT
                 ![i].cmds = <<"write", "set_inode_field">>,
                 ![i].pc = IF ~inv[i].signed THEN "write_batch"
                           ELSE IF inv[i].has_key THEN "copy" ELSE "raised",
                 ![i].raised_at = IF inv[i].signed /\ ~inv[i].has_key
                                  THEN "assert_key" ELSE @]
    /\ UNCHANGED <<tmp_names, cpioVars, ramfsVars, testVars, toolVars>>

\* local_bin = work / "ima-test"; shutil.copy2(binary_path, local_bin)
CopyBinary(i) ==
    /\ inv[i].pc = "copy"
    /\ inv' = [inv EXCEPT ![i].wrote = @ \cup {<<inv[i].work, "ima-test">>},
                          ![i].pc = "evmctl"]
    /\ UNCHANGED <<tmp_names, cpioVars, ramfsVars, testVars, toolVars>>

\* subprocess.run(["evmctl", "ima_sign", "--sigfile", ...], capture_output=True)
Evmctl(i) ==
    /\ inv[i].pc = "evmctl"
    /\ \E rc \in {0, 1}, made \in BOOLEAN :
          inv' = [inv EXCEPT
                    ![i].rc.evmctl = rc,
                    ![i].calls.evmctl = @ + 1,
                    ![i].sig_exists = made,
                    ![i].wrote = IF made
                                 THEN @ \cup {<<inv[i].work, "ima-test.sig">>}
                                 ELSE @,
                    ![i].pc = AfterSigner(rc),
                    ![i].raised_at = IF AfterSigner(rc) = "raised"
                                     THEN "evmctl" ELSE @]
    /\ UNCHANGED <<tmp_names, cpioVars, ramfsVars, testVars, toolVars>>

\* assert sig_file.exists(); cmds.append("ea_set /ima-test security.ima -f ...")
CheckSig(i) ==
    /\ inv[i].pc = "check_sig"
    /\ inv' = [inv EXCEPT
                 ![i].cmds = IF inv[i].sig_exists THEN Append(@, "ea_set") ELSE @,
                 ![i].pc = IF inv[i].sig_exists THEN "write_batch" ELSE "raised",
                 ![i].raised_at = IF inv[i].sig_exists THEN @ ELSE "check_sig"]
    /\ UNCHANGED <<tmp_names, cpioVars, ramfsVars, testVars, toolVars>>

\* batch.write_text("\n".join(cmds) + "\n")
WriteBatch(i) ==
    /\ inv[i].pc = "write_batch"
    /\ inv' = [inv EXCEPT ![i].batch = inv[i].cmds,
                          ![i].wrote = @ \cup {<<inv[i].work, "debugfs.cmds">>},
                          ![i].pc = "debugfs"]
    /\ UNCHANGED <<tmp_names, cpioVars, ramfsVars, testVars, toolVars>>

\* subprocess.run(["debugfs", "-w", "-f", ...], check=True, ...); return img
Debugfs(i) ==
    /\ inv[i].pc = "debugfs"
    /\ \E rc \in {0, 1} :
          inv' = [inv EXCEPT
                    ![i].rc.debugfs = rc,
                    ![i].calls.debugfs = @ + 1,
                    ![i].pc = AfterRun(rc, "returned"),
                    ![i].result = IF AfterRun(rc, "returned") = "returned"
                                  THEN "disk.img" ELSE @,
                    ![i].raised_at = IF AfterRun(rc, "returned") = "raised"
                                     THEN "debugfs" ELSE @]
    /\ UNCHANGED <<tmp_names, cpioVars, ramfsVars, testVars, toolVars>>

\* run_qemu: work = Path(tempfile.mkdtemp(dir=tmp_dir))
QemuMkdtemp(q) ==
    /\ inv[q].pc = "start"
    /\ \E n \in mkdtemp(tmp_names) :
          /\ tmp_names' = tmp_names \cup {n}
          /\ inv' = [inv EXCEPT ![q].work = n, ![q].pc = "write_initrd"]
    /\ UNCHANGED <<cpioVars, ramfsVars, testVars, toolVars>>

\* initrd = work / "initramfs.cpio.gz"; initrd.write_bytes(initramfs_data)
QemuWriteInitrd(q) ==
    /\ inv[q].pc = "write_initrd"
    /\ inv' = [inv EXCEPT
                 ![q].wrote = @ \cup {<<inv[q].work, "initramfs.cpio.gz">>},
                 ![q].pc = "qemu"]
    /\ UNCHANGED <<tmp_names, cpioVars, ramfsVars, testVars, toolVars>>

\* result = subprocess.run(cmd, capture_output=True, text=True, timeout=timeout)
\* return result.stdout + result.stderr
QemuRun(q) ==
    /\ inv[q].pc = "qemu"
    /\ \E expired \in BOOLEAN :
          inv' = [inv EXCEPT
                    ![q].pc = IF expired THEN "raised" ELSE "returned",
                    ![q].raised_at = IF expired THEN "qemu" ELSE @,
                    ![q].result = IF expired THEN @ ELSE "console"]
    /\ UNCHANGED <<tmp_names, cpioVars, ramfsVars, testVars, toolVars>>

InitExt4 == Ext4Init /\ CpioIdle /\ RamfsIdle /\ TestIdle /\ ToolsIdle

NextExt4 ==
    \/ \E i \in InvIds :
          \/ Mkdtemp(i)
          \/ MkEmptyDir(i)
          \/ Mke2fs(i)
          \/ BuildCmds(i)
          \/ CopyBinary(i)
          \/ Evmctl(i)
          \/ CheckSig(i)
          \/ WriteBatch(i)
          \/ Debugfs(i)
    \/ \E q \in QemuIds :
          \/ QemuMkdtemp(q)
          \/ QemuWriteInitrd(q)
          \/ QemuRun(q)

SpecExt4 == InitExt4 /\ [][NextExt4]_vars

(***************************************************************************)
(* The pytest session of TestImaQemu.                                      *)
(*                                                                         *)
(* pytest's part: a test whose skipif mark holds is reported skipped       *)
(* before any of its fixtures is set up; otherwise its fixtures are set up *)
(* in order, the autouse one first; pytest.skip in a fixture reports the   *)
(* test skipped, any other exception there reports it as an error; a       *)
(* session-scoped fixture is set up once and its result (a value or the    *)
(* exception) is reused; an exception in the test body reports the test    *)
(* failed; the code after a session fixture's yield runs once, after the   *)
(* last test, if the fixture was set up.                                   *)
(***************************************************************************)
ToolNames == {"qemu-system-x86_64", "evmctl", "mke2fs", "debugfs", "buck2",
              "openssl"}

\* "IMA-TEST-PASS"
MarkerRan == <<73, 77, 65, 45, 84, 69, 83, 84, 45, 80, 65, 83, 83>>
\* "IMA-RESULT:PASS"
MarkerVerdict == <<73, 77, 65, 45, 82, 69, 83, 85, 76, 84, 58, 80, 65, 83, 83>>

MaxChunks == 2         \* pieces of console text the emulator may print

\* pieces of console text: the two markers, a failed verdict, the two halves
\* of the binary-ran marker, and a line of boot noise
Chunks == {MarkerRan, MarkerVerdict,
           <<73, 77, 65, 45, 82, 69, 83, 85, 76, 84, 58, 70, 65, 73, 76>>,
           <<73, 77, 65, 45, 84, 69, 83, 84, 45>>,
           <<80, 65, 83, 83, 10>>,
           <<98, 111, 111, 116, 10>>}

Texts ==
    {Concat(cs) : cs \in UNION {[1..n -> Chunks] : n \in 0..MaxChunks}}

\* Python's "needle in text" on str
Contains(text, needle) ==
    \E i \in 0..(Len(text) - Len(needle)) :
        SubSeq(text, i + 1, i + Len(needle)) = needle

TestIds == {1, 2, 3}   \* enforce+signed, enforce+unsigned, disabled+unsigned

\* the session fixtures a test asks for, in the order of its parameters
\* (ima_tmp_dir, a fresh directory, cannot skip or fail and is left out)
Fixtures(t) ==
    IF t = 1
    THEN <<"ima_kernel", "ima_test_binary", "ima_init_binary", "ima_cert_der",
           "ima_key">>
    ELSE <<"ima_kernel", "ima_test_binary", "ima_init_binary", "ima_cert_der">>

Pending == [res |-> "pending", why |-> "", asserted |-> FALSE]

TestInit ==
    /\ env \in [tools : SUBSET ToolNames, kvm : BOOLEAN, cert_pem : BOOLEAN,
                key : BOOLEAN, stale : BOOLEAN]
    /\ fx = [cleanup |-> FALSE, built |-> FALSE, next |-> 0,
             ima_kernel |-> "unset", ima_test_binary |-> "unset",
             ima_init_binary |-> "unset", ima_cert_der |-> "unset",
             ima_key |-> "unset"]
    /\ tcur = 1
    /\ tpc = "collected"
    /\ output = <<>>
    /\ timed_out = FALSE
    /\ outcome = [t \in TestIds |-> Pending]
    /\ teardown = "idle"

\* needs_qemu, needs_kvm, needs_evmctl, needs_e2fs on the class
SkipMarked ==
    \/ "qemu-system-x86_64" \notin env.tools
    \/ ~env.kvm
    \/ "evmctl" \notin env.tools
    \/ ~("mke2fs" \in env.tools /\ "debugfs" \in env.tools)

Finish(res, why, asserted) ==
    /\ outcome' = [outcome EXCEPT ![tcur] =
                      [res |-> res, why |-> why, asserted |-> asserted]]
    /\ tpc' = "finished"

\* the test is skipped by its marks, or its setup begins with the autouse
\* fixture _cleanup_ima_isolation_dirs (which only yields)
BeginTest ==
    /\ tcur \in TestIds
    /\ tpc = "collected"
    /\ IF SkipMarked
       THEN Finish("skipped", "skipif", FALSE) /\ UNCHANGED fx
       ELSE /\ tpc' = "setup"
            /\ fx' = [fx EXCEPT !.cleanup = TRUE, !.next = 1]
            /\ UNCHANGED outcome
    /\ UNCHANGED <<env, tcur, output, timed_out, teardown>>
    /\ UNCHANGED <<cpioVars, ramfsVars, ext4Vars, toolVars>>

\* _buck2_build: skip without buck2; else run it in a fresh ima-* isolation
\* dir; a failed build or an unparsable output is an exception
Buck2Results ==
    IF "buck2" \notin env.tools THEN {"skip"} ELSE {"ok", "AssertionError"}

\* ima_cert_der: skip without the PEM file; else run openssl, check=True
CertDerResults ==
    IF ~env.cert_pem THEN {"skip"}
    ELSE IF "openssl" \notin env.tools THEN {"FileNotFoundError"}
    ELSE {"ok", "CalledProcessError"}

\* ima_key: skip without the private key file
KeyResults == IF env.key THEN {"ok"} ELSE {"skip"}

FixtureResults(name) ==
    IF name = "ima_cert_der" THEN CertDerResults
    ELSE IF name = "ima_key" THEN KeyResults
    ELSE Buck2Results

\* set up the next fixture of the current test, or reuse its cached result
SetupFixture ==
    /\ tcur \in TestIds
    /\ tpc = "setup"
    /\ fx.next <= Len(Fixtures(tcur))
    /\ LET name == Fixtures(tcur)[fx.next]
           isBuild == name \notin {"ima_cert_der", "ima_key"}
       IN \E r \in (IF fx[name] = "unset" THEN FixtureResults(name)
                    ELSE {fx[name]}) :
             /\ fx' = [fx EXCEPT
                         ![name] = r,
                         !.built = @ \/ (isBuild /\ "buck2" \in env.tools),
                         !.next = IF r = "ok" THEN @ + 1 ELSE @]
             /\ IF r = "ok" THEN UNCHANGED <<tpc, outcome>>
                ELSE IF r = "skip" THEN Finish("skipped", "pytest.skip", FALSE)
                ELSE Finish("error", r, FALSE)
    /\ UNCHANGED <<env, tcur, output, timed_out, teardown>>
    /\ UNCHANGED <<cpioVars, ramfsVars, ext4Vars, toolVars>>

\* disk = build_ext4_image(...): returns the image or raises (see SpecExt4);
\* initramfs = build_initramfs(...)
BuildImage ==
    /\ tcur \in TestIds
    /\ tpc = "setup"
    /\ fx.next > Len(Fixtures(tcur))
    /\ \/ tpc' = "qemu" /\ UNCHANGED outcome
       \/ Finish("failed", "CalledProcessError", FALSE)
       \/ tcur = 1 /\ Finish("failed", "AssertionError", FALSE)
    /\ UNCHANGED <<env, fx, tcur, output, timed_out, teardown>>
    /\ UNCHANGED <<cpioVars, ramfsVars, ext4Vars, toolVars>>

\* result = subprocess.run(cmd, ..., timeout=timeout); return stdout + stderr
\* (subprocess.run kills the child and raises TimeoutExpired on a timeout)
RunQemuResult(text, expired) ==
    IF expired THEN [raised |-> TRUE, value |-> <<>>]
    ELSE [raised |-> FALSE, value |-> text]

\* output = run_qemu(...)
RunQemu ==
    /\ tcur \in TestIds
    /\ tpc = "qemu"
    /\ \E text \in Texts, expired \in BOOLEAN :
          LET r == RunQemuResult(text, expired)
          IN /\ timed_out' = expired
             /\ output' = r.value
             /\ IF r.raised THEN Finish("failed", "TimeoutExpired", FALSE)
                ELSE tpc' = "assert1" /\ UNCHANGED outcome
    /\ UNCHANGED <<env, fx, tcur, teardown>>
    /\ UNCHANGED <<cpioVars, ramfsVars, ext4Vars, toolVars>>

\* mutant: all three tests expect the binary-ran marker
FirstAssertionAlwaysPresent(t, text) == Contains(text, MarkerRan)

\* assert "IMA-TEST-PASS" in output      (tests 1 and 3)
\* assert "IMA-TEST-PASS" not in output  (test 2)
FirstAssertion(t, text) ==
    IF t = 2 THEN ~Contains(text, MarkerRan) ELSE Contains(text, MarkerRan)

\* assert "IMA-RESULT:PASS" in output
SecondAssertion(t, text) == Contains(text, MarkerVerdict)

Assert1 ==
    /\ tcur \in TestIds
    /\ tpc = "assert1"
    /\ IF FirstAssertion(tcur, output)
       THEN tpc' = "assert2" /\ UNCHANGED outcome
       ELSE Finish("failed", "AssertionError", TRUE)
    /\ UNCHANGED <<env, fx, tcur, output, timed_out, teardown>>
    /\ UNCHANGED <<cpioVars, ramfsVars, ext4Vars, toolVars>>

Assert2 ==
    /\ tcur \in TestIds
    /\ tpc = "assert2"
    /\ IF SecondAssertion(tcur, output)
       THEN Finish("passed", "", TRUE)
       ELSE Finish("failed", "AssertionError", TRUE)
    /\ UNCHANGED <<env, fx, tcur, output, timed_out, teardown>>
    /\ UNCHANGED <<cpioVars, ramfsVars, ext4Vars, toolVars>>

NextTest ==
    /\ tcur \in TestIds
    /\ tpc = "finished"
    /\ tcur' = tcur + 1
    /\ tpc' = IF tcur + 1 \in TestIds THEN "collected" ELSE "session_end"
    /\ output' = <<>>
    /\ timed_out' = FALSE
    /\ UNCHANGED <<env, fx, outcome, teardown>>
    /\ UNCHANGED <<cpioVars, ramfsVars, ext4Vars, toolVars>>

\* _cleanup_ima_isolation_dirs after its yield: for every ima-* directory of
\* buck-out, run "buck2 --isolation-dir <name> kill", then remove it
SessionTeardown ==
    /\ tpc = "session_end"
    /\ teardown = "idle"
    /\ teardown' =
          IF ~fx.cleanup THEN "not_run"
          ELSE IF ~(env.stale \/ fx.built) THEN "done"
          ELSE IF "buck2" \notin env.tools THEN "FileNotFoundError"
          ELSE "done"
    /\ UNCHANGED <<env, fx, tcur, tpc, output, timed_out, outcome>>
    /\ UNCHANGED <<cpioVars, ramfsVars, ext4Vars, toolVars>>

InitTest == TestInit /\ CpioIdle /\ RamfsIdle /\ Ext4Idle /\ ToolsIdle

NextTestSession ==
    \/ BeginTest
    \/ SetupFixture
    \/ BuildImage
    \/ RunQemu
    \/ Assert1
    \/ Assert2
    \/ NextTest
    \/ SessionTeardown

SpecTest == InitTest /\ [][NextTestSession]_vars

(***************************************************************************)
(* _buck2_build(repo_root, target, timeout): from the buck2 run to the     *)
(* path returned.  The exit status and the text on stdout are buck2's      *)
(* choice; the text is a string over a small alphabet.                     *)
(***************************************************************************)
MaxStdout == 5         \* longest stdout text

StdoutChars == {97, 98, 32, 10}      \* "a", "b", " ", "\n"

Stdouts == UNION {[1..n -> StdoutChars] : n \in 0..MaxStdout}

\* str.isspace() for the characters of str.split() and str.strip()
Whitespace == {9, 10, 11, 12, 13, 32}

\* first index >= i of s that is not whitespace, Len(s) + 1 when there is none
RECURSIVE SkipSpace(_, _)
SkipSpace(s, i) ==
    IF i > Len(s) \/ s[i] \notin Whitespace THEN i ELSE SkipSpace(s, i + 1)

\* first index >= i of s that is whitespace, Len(s) + 1 when there is none
RECURSIVE SkipWord(_, _)
SkipWord(s, i) ==
    IF i > Len(s) \/ s[i] \in Whitespace THEN i ELSE SkipWord(s, i + 1)

\* last index <= i of s that is not whitespace, 0 when there is none
RECURSIVE LastWord(_, _)
LastWord(s, i) ==
    IF i = 0 \/ s[i] \notin Whitespace THEN i ELSE LastWord(s, i - 1)

\* result.stdout.strip()
strip(s) == SubSeq(s, SkipSpace(s, 1), LastWord(s, Len(s)))

\* first index >= i of s that holds a line break, Len(s) + 1 when none does
RECURSIVE FindBreak(_, _)
FindBreak(s, i) ==
    IF i > Len(s) \/ s[i] = 10 THEN i ELSE FindBreak(s, i + 1)

\* str.splitlines(): the lines without their line breaks; no empty last line
RECURSIVE splitlines(_)
splitlines(s) ==
    IF s = <<>>
    THEN <<>>
    ELSE LET k == FindBreak(s, 1)
         IN <<SubSeq(s, 1, k - 1)>> \o splitlines(SubSeq(s, k + 1, Len(s)))

\* mutant: line.split() with no maxsplit, keeping the first and the last word
split_first_last(line) ==
    LET i == SkipSpace(line, 1)
        j == SkipWord(line, i)
        k == SkipSpace(line, j)
        e == LastWord(line, Len(line))
        RECURSIVE WordStart(_)
        WordStart(x) ==
            IF x = 1 \/ line[x - 1] \in Whitespace THEN x ELSE WordStart(x - 1)
    IN IF i > Len(line) THEN <<>>
       ELSE IF k > Len(line) THEN <<SubSeq(line, i, j - 1)>>
       ELSE <<SubSeq(line, i, j - 1), SubSeq(line, WordStart(e), e)>>

\* line.split(None, 1): leading whitespace is skipped, the first word is cut
\* off, the whitespace after it is skipped, and what is left of the line, if
\* anything, is the second part as it stands
split_None_1(line) ==
    LET i == SkipSpace(line, 1)
        j == SkipWord(line, i)
        k == SkipSpace(line, j)
    IN IF i > Len(line) THEN <<>>
       ELSE IF k > Len(line) THEN <<SubSeq(line, i, j - 1)>>
       ELSE <<SubSeq(line, i, j - 1), SubSeq(line, k, Len(line))>>

Buck2Init ==
    b2 = [pc |-> "start", rc |-> NotRun, stdout |-> <<>>, lines |-> <<>>,
          ret |-> <<>>, why |-> ""]

\* result = subprocess.run(["buck2", ...], capture_output=True, text=True,
\*                         timeout=timeout)
Buck2Run ==
    /\ b2.pc = "start"
    /\ \E expired \in BOOLEAN, rc \in {0, 1}, out \in Stdouts :
          b2' = IF expired
                THEN [b2 EXCEPT !.pc = "raised", !.why = "TimeoutExpired"]
                ELSE [b2 EXCEPT !.pc = "assert", !.rc = rc, !.stdout = out]
    /\ UNCHANGED <<cpioVars, ramfsVars, ext4Vars, testVars>>
    /\ UNCHANGED <<isoVars, envVars, khVars>>

\* assert result.returncode == 0; then the loop over
\* result.stdout.strip().splitlines() starts
Buck2AssertRc ==
    /\ b2.pc = "assert"
    /\ b2' = IF b2.rc = 0
             THEN [b2 EXCEPT !.pc = "parse",
                             !.lines = splitlines(strip(b2.stdout))]
             ELSE [b2 EXCEPT !.pc = "raised", !.why = "AssertionError"]
    /\ UNCHANGED <<cpioVars, ramfsVars, ext4Vars, testVars>>
    /\ UNCHANGED <<isoVars, envVars, khVars>>

\* parts = line.split(None, 1); if len(parts) == 2: return Path(parts[1])
\* (the text handed to Path stands for the path: the alphabet has no "/")
Buck2Line ==
    /\ b2.pc = "parse"
    /\ b2.lines # <<>>
    /\ LET parts == split_None_1(Head(b2.lines))
       IN b2' = IF Len(parts) = 2
                THEN [b2 EXCEPT !.pc = "returned", !.ret = parts[2]]
                ELSE [b2 EXCEPT !.lines = Tail(b2.lines)]
    /\ UNCHANGED <<cpioVars, ramfsVars, ext4Vars, testVars>>
    /\ UNCHANGED <<isoVars, envVars, khVars>>

\* pytest.fail("Could not parse output path from: ...") after the loop
Buck2Fail ==
    /\ b2.pc = "parse"
    /\ b2.lines = <<>>
    /\ b2' = [b2 EXCEPT !.pc = "failed", !.why = "pytest.fail"]
    /\ UNCHANGED <<cpioVars, ramfsVars, ext4Vars, testVars>>
    /\ UNCHANGED <<isoVars, envVars, khVars>>

InitBuck2 ==
    /\ Buck2Init /\ IsoIdle /\ EnvIdle /\ KhIdle
    /\ CpioIdle /\ RamfsIdle /\ Ext4Idle /\ TestIdle

NextBuck2 ==
    \/ Buck2Run
    \/ Buck2AssertRc
    \/ Buck2Line
    \/ Buck2Fail

SpecBuck2 == InitBuck2 /\ [][NextBuck2]_vars

(***************************************************************************)
(* pytest sessions that share repo_root / "buck-out": each session runs    *)
(* its tests, whose session fixtures call _buck2_build under an isolation  *)
(* name of their own, and ends with _cleanup_ima_isolation_dirs.           *)
(***************************************************************************)
MaxBuilds == 2         \* _buck2_build calls a session makes
NumUuids == 3          \* values uuid.uuid4().hex[:12] can take
NumTests == 3          \* tests of TestImaQemu

ImaPrefix == <<105, 109, 97, 45>>                  \* "ima-"

\* uuid.uuid4().hex[:12], shortened to one hexadecimal digit
UuidHex == {<<48 + d>> : d \in 1..NumUuids}

\* what buck-out can hold before a session starts: the default isolation
\* directory "v2", a directory "ima", a stale directory "ima-f", a regular
\* file "ima-a" and a symbolic link "ima-b" to a directory
StaleEntries ==
    {[name |-> <<118, 50>>, kind |-> "dir"],
     [name |-> <<105, 109, 97>>, kind |-> "dir"],
     [name |-> ImaPrefix \o <<102>>, kind |-> "dir"],
     [name |-> ImaPrefix \o <<97>>, kind |-> "file"],
     [name |-> ImaPrefix \o <<98>>, kind |-> "symlink"]}

\* mutant: a prefix test that accepts every name
startswith_anything(name, prefix) == TRUE

\* d.name.startswith("ima-")
startswith(name, prefix) ==
    /\ Len(name) >= Len(prefix)
    /\ SubSeq(name, 1, Len(prefix)) = prefix

\* d.is_dir(): the entry still exists and is a directory, or a link to one
is_dir(name) ==
    \E e \in buck_out : e.name = name /\ e.kind \in {"dir", "symlink"}

\* names uuid4 has produced so far; a new draw differs from all of them
Drawn == UNION {{sess[s].names[k] : k \in 1..Len(sess[s].names)} : s \in DOMAIN sess}

\* the pytest sessions that can run on the repository
SessIds == {1, 2}

NewSession ==
    [pc |-> "tests", tests_run |-> 0, names |-> <<>>, cur |-> <<>>,
     todo |-> {}, why |-> ""]

IsoInit(n, olds) ==
    /\ \E old \in olds : stale = old /\ buck_out = old
    /\ daemons = {}
    /\ killed = {}
    /\ sess = [s \in SessIds |->
                  IF s <= n THEN NewSession
                  ELSE [NewSession EXCEPT !.pc = "absent"]]

\* _buck2_build: iso_name = "ima-" + uuid.uuid4().hex[:12]; buck2 is started
\* under it, which creates buck-out/<iso_name> and its daemon
StartBuild(s) ==
    /\ sess[s].pc = "tests"
    /\ sess[s].tests_run < NumTests
    /\ Len(sess[s].names) < MaxBuilds
    /\ \E hex \in UuidHex :
          LET iso_name == ImaPrefix \o hex
          IN /\ iso_name \notin Drawn
             /\ buck_out' = buck_out \cup {[name |-> iso_name, kind |-> "dir"]}
             /\ daemons' = daemons \cup {iso_name}
             /\ sess' = [sess EXCEPT ![s].pc = "building",
                                     ![s].cur = iso_name,
                                     ![s].names = Append(@, iso_name)]
    /\ UNCHANGED <<killed, stale>>
    /\ UNCHANGED <<cpioVars, ramfsVars, ext4Vars, testVars>>
    /\ UNCHANGED <<buckVars, envVars, khVars>>

\* subprocess.run returns: the build is over, its daemon stays alive
FinishBuild(s) ==
    /\ sess[s].pc = "building"
    /\ sess' = [sess EXCEPT ![s].pc = "tests", ![s].cur = <<>>]
    /\ UNCHANGED <<buck_out, daemons, killed, stale>>
    /\ UNCHANGED <<cpioVars, ramfsVars, ext4Vars, testVars>>
    /\ UNCHANGED <<buckVars, envVars, khVars>>

\* a test of the session ends, whatever its outcome
FinishTest(s) ==
    /\ sess[s].pc = "tests"
    /\ sess[s].tests_run < NumTests
    /\ sess' = [sess EXCEPT ![s].tests_run = @ + 1]
    /\ UNCHANGED <<buck_out, daemons, killed, stale>>
    /\ UNCHANGED <<cpioVars, ramfsVars, ext4Vars, testVars>>
    /\ UNCHANGED <<buckVars, envVars, khVars>>

\* the code after the yield, run by pytest when the session's last test is
\* over: buck_out.exists(), buck_out.iterdir() lists the entries
ListBuckOut(s) ==
    /\ sess[s].pc = "tests"
    /\ sess[s].tests_run = NumTests
    /\ sess' = [sess EXCEPT ![s].pc = "loop",
                            ![s].todo = {e.name : e \in buck_out}]
    /\ UNCHANGED <<buck_out, daemons, killed, stale>>
    /\ UNCHANGED <<cpioVars, ramfsVars, ext4Vars, testVars>>
    /\ UNCHANGED <<buckVars, envVars, khVars>>

\* if d.is_dir() and d.name.startswith("ima-")
Matches(d) == is_dir(d) /\ startswith(d, ImaPrefix)

\* the loop comes to an entry that passes the test (those that fail it are
\* passed over): buck2 --isolation-dir d.name kill (status dropped,
\* timeout=30), then shutil.rmtree(d, ignore_errors=True), which refuses a
\* symbolic link
VisitEntry(s) ==
    /\ sess[s].pc = "loop"
    /\ \E d \in sess[s].todo :
          /\ Matches(d)
          /\ \E expired \in BOOLEAN :
                /\ killed' = killed \cup {d}
                /\ daemons' = IF expired THEN daemons ELSE daemons \ {d}
                /\ buck_out' = IF expired THEN buck_out
                               ELSE buck_out \ {[name |-> d, kind |-> "dir"]}
                /\ sess' = IF expired
                           THEN [sess EXCEPT ![s].pc = "raised",
                                             ![s].why = "TimeoutExpired"]
                           ELSE [sess EXCEPT ![s].todo = @ \ {d}]
    /\ UNCHANGED stale
    /\ UNCHANGED <<cpioVars, ramfsVars, ext4Vars, testVars>>
    /\ UNCHANGED <<buckVars, envVars, khVars>>

\* no entry still to come passes the test: the loop ends and with it the
\* teardown
TeardownDone(s) ==
    /\ sess[s].pc = "loop"
    /\ \A d \in sess[s].todo : ~Matches(d)
    /\ sess' = [sess EXCEPT ![s].pc = "done", ![s].todo = {}]
    /\ UNCHANGED <<buck_out, daemons, killed, stale>>
    /\ UNCHANGED <<cpioVars, ramfsVars, ext4Vars, testVars>>
    /\ UNCHANGED <<buckVars, envVars, khVars>>

NextIso ==
    \E s \in SessIds :
        \/ StartBuild(s)
        \/ FinishBuild(s)
        \/ FinishTest(s)
        \/ ListBuckOut(s)
        \/ VisitEntry(s)
        \/ TeardownDone(s)

\* one session alone on the repository
InitSession ==
    /\ IsoInit(1, SUBSET StaleEntries) /\ Buck2Idle /\ EnvIdle /\ KhIdle
    /\ CpioIdle /\ RamfsIdle /\ Ext4Idle /\ TestIdle

SpecSession == InitSession /\ [][NextIso]_vars

\* two sessions at once on the same repository
InitSessions ==
    /\ IsoInit(2, {{}, StaleEntries}) /\ Buck2Idle /\ EnvIdle /\ KhIdle
    /\ CpioIdle /\ RamfsIdle /\ Ext4Idle /\ TestIdle

SpecSessions == InitSessions /\ [][NextIso]_vars

(***************************************************************************)
(* tools/_env.py: os.environ is a function from variable names to values,  *)
(* a value being a sequence of text pieces (the empty string is <<>>).     *)
(* The process inherits any environment over a few variable names, and     *)
(* then calls clean_env() and sanitize_global_env() in any order.          *)
(***************************************************************************)
MaxSanitize == 2       \* sanitize_global_env() calls in one process

_PASSTHROUGH ==
    {"HOME", "USER", "LOGNAME", "TMPDIR", "TEMP", "TMP", "TERM",
     "BUCK_SCRATCH_PATH"}

_DETERMINISM_PINS ==
    [LC_ALL |-> <<"C">>, LANG |-> <<"C">>,
     SOURCE_DATE_EPOCH |-> <<"315576000">>, CCACHE_DISABLE |-> <<"1">>,
     RUSTC_WRAPPER |-> <<>>, CARGO_BUILD_RUSTC_WRAPPER |-> <<>>]

\* env = {} / keep = {}
EmptyDict == [k \in {} |-> <<>>]

\* dict.update(other)
update(d, other) ==
    [k \in DOMAIN d \cup DOMAIN other |->
        IF k \in DOMAIN other THEN other[k] ELSE d[k]]

\* for key in _PASSTHROUGH: val = os.environ.get(key);
\*     if val is not None: env[key] = val
Whitelisted(environ) == [k \in _PASSTHROUGH \cap DOMAIN environ |-> environ[k]]

\* clean_env(): the dict it returns when os.environ is environ
clean_env(environ) ==
    update(update(EmptyDict, Whitelisted(environ)), _DETERMINISM_PINS)

\* mutant: sanitize_global_env() without os.environ.clear()
sanitize_without_clear(environ) ==
    update(update(environ, Whitelisted(environ)), _DETERMINISM_PINS)

\* sanitize_global_env(): os.environ after the call when it was environ
\* before: keep, os.environ.clear(), update(keep), update(_DETERMINISM_PINS)
sanitize_global_env(environ) ==
    LET keep == Whitelisted(environ)
        cleared == EmptyDict
    IN update(update(cleared, keep), _DETERMINISM_PINS)

\* the variable names and values of the host environments looked at: three
\* whitelisted names, two pinned names, two names that are neither
HostNames ==
    {"HOME", "TERM", "BUCK_SCRATCH_PATH", "LC_ALL", "RUSTC_WRAPPER", "PATH",
     "CC"}

HostValues == {<<>>, <<"host">>}

HostEnvirons == UNION {[names -> HostValues] : names \in SUBSET HostNames}

EnvInit ==
    /\ host_environ \in HostEnvirons
    /\ os_environ = host_environ
    /\ cleaned = <<>>
    /\ sanitized = 0

\* a caller runs clean_env(): nothing is assigned to os.environ
CallCleanEnv ==
    /\ cleaned' = [on |-> os_environ, env |-> clean_env(os_environ)]
    /\ UNCHANGED <<host_environ, os_environ, sanitized>>
    /\ UNCHANGED <<cpioVars, ramfsVars, ext4Vars, testVars>>
    /\ UNCHANGED <<buckVars, isoVars, khVars>>

\* a caller runs sanitize_global_env()
CallSanitize ==
    /\ sanitized < MaxSanitize
    /\ os_environ' = sanitize_global_env(os_environ)
    /\ sanitized' = sanitized + 1
    /\ UNCHANGED <<host_environ, cleaned>>
    /\ UNCHANGED <<cpioVars, ramfsVars, ext4Vars, testVars>>
    /\ UNCHANGED <<buckVars, isoVars, khVars>>

InitEnv ==
    /\ EnvInit /\ Buck2Idle /\ IsoIdle /\ KhIdle
    /\ CpioIdle /\ RamfsIdle /\ Ext4Idle /\ TestIdle

NextEnv ==
    \/ CallCleanEnv
    \/ CallSanitize

SpecEnv == InitEnv /\ [][NextEnv]_vars

(***************************************************************************)
(* tools/kernel_headers.py, main(): the PATH the program builds from its   *)
(* flags, up to the make run.  A PATH is a sequence of text pieces, each a *)
(* directory name or the separator ":".                                    *)
(***************************************************************************)
MaxDirs == 2           \* most values of one repeatable flag

Colon == ":"

\* values given to --hermetic-path and to --path-prepend: one absolute and
\* one relative directory name each
HermeticDirs == {"/hp", "hp"}

PrependDirs == {"/pp", "pp"}

\* the host's PATH: unset, empty, one entry, two entries
HostPaths == {<<>>, <<"/usr/bin">>, <<"/usr/bin", Colon, "/bin">>}

SeqsUpTo(S, n) == UNION {[1..k -> S] : k \in 0..n}

\* os.path.abspath(p), the working directory being /cwd
abspath(p) ==
    CASE p = "hp" -> "/cwd/hp"
      [] p = "pp" -> "/cwd/pp"
      [] OTHER -> p

\* ":".join(parts)
RECURSIVE join(_)
join(parts) ==
    IF parts = <<>> THEN <<>>
    ELSE IF Len(parts) = 1 THEN <<parts[1]>>
    ELSE <<parts[1], Colon>> \o join(Tail(parts))

\* [os.path.abspath(p) for p in dirs]
AbsAll(dirs) == [k \in 1..Len(dirs) |-> abspath(dirs[k])]

\* the elements of dirs that satisfy os.path.isdir, in order
RECURSIVE Existing(_, _)
Existing(dirs, isdir) ==
    IF dirs = <<>> THEN <<>>
    ELSE IF Head(dirs) \in isdir
         THEN <<Head(dirs)>> \o Existing(Tail(dirs), isdir)
         ELSE Existing(Tail(dirs), isdir)

\* os.environ.get("PATH", "")
GetPath(environ) == IF "PATH" \in DOMAIN environ THEN environ["PATH"] ELSE <<>>

\* prepend + ":" + os.environ.get("PATH", "")
prepend_to_path(prepend, old) == prepend \o <<Colon>> \o old

KhInit ==
    /\ \E hp \in SeqsUpTo(HermeticDirs, MaxDirs),
          pp \in SeqsUpTo(PrependDirs, MaxDirs),
          he \in BOOLEAN, ah \in BOOLEAN,
          isdir \in SUBSET PrependDirs, source_ok \in BOOLEAN :
          kh = [pc |-> "start",
                args |-> [hermetic_path |-> hp, hermetic_empty |-> he,
                          allow_host_path |-> ah, path_prepend |-> pp],
                isdir |-> isdir, source_ok |-> source_ok,
                host_path |-> <<>>, build_dir |-> FALSE, make_ran |-> FALSE,
                exit |-> NotRun]
    /\ \E env0 \in [{"HOME"} -> HostValues] \cup {EmptyDict},
          path0 \in HostPaths, has_path \in BOOLEAN :
          host_environ = IF has_path
                         THEN update(env0, [PATH |-> path0])
                         ELSE env0
    /\ os_environ = host_environ
    /\ cleaned = <<>>
    /\ sanitized = 0

\* _host_path = os.environ.get("PATH", ""); sanitize_global_env()
KhSanitize ==
    /\ kh.pc = "start"
    /\ kh' = [kh EXCEPT !.host_path = GetPath(os_environ), !.pc = "path"]
    /\ os_environ' = sanitize_global_env(os_environ)
    /\ sanitized' = sanitized + 1
    /\ UNCHANGED <<host_environ, cleaned>>
    /\ UNCHANGED <<cpioVars, ramfsVars, ext4Vars, testVars>>
    /\ UNCHANGED <<buckVars, isoVars>>

\* if args.hermetic_path: ... elif args.hermetic_empty: ...
\* elif args.allow_host_path: ... else: sys.exit(1)
KhApplyPath ==
    /\ kh.pc = "path"
    /\ IF kh.args.hermetic_path # <<>>
       THEN /\ os_environ' = update(os_environ,
                   [PATH |-> join(AbsAll(kh.args.hermetic_path))])
            /\ kh' = [kh EXCEPT !.pc = "prepend"]
       ELSE IF kh.args.hermetic_empty
       THEN /\ os_environ' = update(os_environ, [PATH |-> <<>>])
            /\ kh' = [kh EXCEPT !.pc = "prepend"]
       ELSE IF kh.args.allow_host_path
       THEN /\ os_environ' = update(os_environ, [PATH |-> kh.host_path])
            /\ kh' = [kh EXCEPT !.pc = "prepend"]
       ELSE /\ kh' = [kh EXCEPT !.pc = "exited", !.exit = 1]
            /\ UNCHANGED os_environ
    /\ UNCHANGED <<host_environ, cleaned, sanitized>>
    /\ UNCHANGED <<cpioVars, ramfsVars, ext4Vars, testVars>>
    /\ UNCHANGED <<buckVars, isoVars>>

\* if args.path_prepend: prepend = ":".join(abspath(p) for p in
\* args.path_prepend if os.path.isdir(p)); if prepend: os.environ["PATH"] = ...
KhPrepend ==
    /\ kh.pc = "prepend"
    /\ LET prepend == join(AbsAll(Existing(kh.args.path_prepend, kh.isdir)))
       IN os_environ' =
             IF kh.args.path_prepend # <<>> /\ prepend # <<>>
             THEN update(os_environ,
                         [PATH |-> prepend_to_path(prepend, GetPath(os_environ))])
             ELSE os_environ
    /\ kh' = [kh EXCEPT !.pc = "source_dir"]
    /\ UNCHANGED <<host_environ, cleaned, sanitized>>
    /\ UNCHANGED <<cpioVars, ramfsVars, ext4Vars, testVars>>
    /\ UNCHANGED <<buckVars, isoVars>>

\* if not os.path.isdir(source_dir): sys.exit(1); likewise the config file
KhCheckSource ==
    /\ kh.pc = "source_dir"
    /\ kh' = IF kh.source_ok
             THEN [kh EXCEPT !.pc = "build_dir"]
             ELSE [kh EXCEPT !.pc = "exited", !.exit = 1]
    /\ UNCHANGED envVars
    /\ UNCHANGED <<cpioVars, ramfsVars, ext4Vars, testVars>>
    /\ UNCHANGED <<buckVars, isoVars>>

\* build_dir = output_dir + ".kbuild"; os.makedirs(build_dir)
KhMakeBuildDir ==
    /\ kh.pc = "build_dir"
    /\ kh' = [kh EXCEPT !.pc = "make", !.build_dir = TRUE]
    /\ UNCHANGED envVars
    /\ UNCHANGED <<cpioVars, ramfsVars, ext4Vars, testVars>>
    /\ UNCHANGED <<buckVars, isoVars>>

\* result = subprocess.run(make_cmd); sys.exit(1) on a non-zero status
KhMake ==
    /\ kh.pc = "make"
    /\ \E rc \in {0, 1} :
          kh' = [kh EXCEPT !.pc = "exited", !.make_ran = TRUE, !.exit = rc]
    /\ UNCHANGED envVars
    /\ UNCHANGED <<cpioVars, ramfsVars, ext4Vars, testVars>>
    /\ UNCHANGED <<buckVars, isoVars>>

InitKh ==
    /\ KhInit /\ Buck2Idle /\ IsoIdle
    /\ CpioIdle /\ RamfsIdle /\ Ext4Idle /\ TestIdle

NextKh ==
    \/ KhSanitize
    \/ KhApplyPath
    \/ KhPrepend
    \/ KhCheckSource
    \/ KhMakeBuildDir
    \/ KhMake

SpecKh == InitKh /\ [][NextKh]_vars

(***************************************************************************)
(* Specification of the archive builder alone: the other components rest.  *)
(***************************************************************************)
InitCpio == CpioInit /\ RamfsIdle /\ Ext4Idle /\ TestIdle /\ ToolsIdle

NextCpio == CallEntry \/ AddFile \/ AddDir \/ AddTrailer \/ ReadBack

SpecCpio == InitCpio /\ [][NextCpio]_vars

(***************************************************************************)
(* C4: for every name and content passed to _cpio_entry the content starts *)
(* at a multiple of 4, the entry's length is a multiple of 4, and both     *)
(* paddings are the minimum number (0..3) of NUL bytes: none when the      *)
(* position is already aligned.                                            *)
(***************************************************************************)
MinPad(n) == (4 - (n % 4)) % 4

C4_PaddingAligned ==
    last.called =>
        LET out == last.out
            ns == Len(last.name) + 1
            k1 == MinPad(110 + ns)
            off == 110 + ns + k1
            k2 == Len(out) - off - Len(last.data)
        IN /\ off % 4 = 0
           /\ Len(out) % 4 = 0
           /\ k1 \in 0..3
           /\ k2 = MinPad(Len(last.data))
           /\ ((110 + ns) % 4 = 0 => k1 = 0)
           /\ (Len(last.data) % 4 = 0 => k2 = 0)
           /\ SubSeq(out, 111, 110 + ns) = last.name \o <<0>>
           /\ SubSeq(out, 110 + ns + 1, off) = Zeros(k1)
           /\ SubSeq(out, off + 1, off + Len(last.data)) = last.data
           /\ SubSeq(out, off + Len(last.data) + 1, Len(out)) = Zeros(k2)

\* a call where header + namesize is already aligned (name of length 1: no
\* name padding) and the 3-byte content takes one byte of padding
C4_Witness ==
    /\ last.called
    /\ Len(last.name) = 1
    /\ Len(last.data) = 3
    /\ Len(last.out) = 116

(***************************************************************************)
(* C5: the header of every entry is exactly 110 bytes: the tag "070701"    *)
(* and 13 fields of exactly 8 uppercase hex digits, in the order inode,    *)
(* mode, uid, gid, nlink, mtime, filesize, devmajor, devminor, rdevmajor,  *)
(* rdevminor, namesize, checksum; filesize encodes len(content), namesize  *)
(* len(name)+1, and uid, gid, mtime and checksum are zero.                 *)
(***************************************************************************)
IsUpperHex(c) == (c >= 48 /\ c <= 57) \/ (c >= 65 /\ c <= 70)

C7_RoundTripAnyEntries ==
    cpio_pc = "read" => decoded = entries

(***************************************************************************)
(* C7 amended: the reader recovers exactly the entries that were written,  *)
(* for every list of entries none of which is named TRAILER!!!.            *)
(***************************************************************************)
NoSentinelName == \A i \in 1..Len(entries) : entries[i].name # TrailerName

C7_RoundTrip ==
    (cpio_pc = "read" /\ NoSentinelName) => decoded = entries

\* two entries, one with unaligned content, read back
C7_Witness ==
    /\ cpio_pc = "read"
    /\ NoSentinelName
    /\ Len(entries) = 2
    /\ Len(entries[1].data) = 3
    /\ entries[2].mode = DirMode
    /\ decoded = entries

(***************************************************************************)
(* What an emitted entry says, read from its bytes.                        *)
(***************************************************************************)
EntryIno(b) == ParseHex(HeaderField(b, 0, 1))
EntryMode(b) == ParseHex(HeaderField(b, 0, 2))
EntryFilesize(b) == ParseHex(HeaderField(b, 0, 7))
EntryName(b) == SubSeq(b, 111, 110 + ParseHex(HeaderField(b, 0, 12)) - 1)
IsTrailer(b) == EntryName(b) = TrailerName

\* the proper path prefixes of a name: what precedes each of its slashes
PathPrefixes(name) ==
    {SubSeq(name, 1, k - 1) : k \in {i \in 1..Len(name) : name[i] = 47}}

Finished(r) == runs[r].pc \in {"gzip", "done"}

InodesDistinct(w) ==
    \A i, j \in 1..Len(w) : i < j => EntryIno(w[i]) # EntryIno(w[j])

PrefixDirsFirst(w) ==
    \A i \in 1..Len(w) :
        ~IsTrailer(w[i]) =>
            /\ \A pfx \in PathPrefixes(EntryName(w[i])) :
                  \E j \in 1..(i - 1) :
                      EntryName(w[j]) = pfx /\ EntryMode(w[j]) = DirMode
            /\ EntryName(w[1]) = RootName /\ EntryMode(w[1]) = DirMode

OneTrailerLast(r) ==
    LET w == runs[r].written
    IN /\ \A i \in 1..Len(w) :
             IsTrailer(w[i]) =>
                 /\ i = Len(w)
                 /\ Finished(r)
                 /\ EntryMode(w[i]) = 0
                 /\ EntryFilesize(w[i]) = 0
                 /\ Len(w[i]) = Align4(110 + Len(TrailerName) + 1)
       /\ Finished(r) =>
             /\ Len(w) = Len(FixedDirs) + 4
             /\ IsTrailer(w[Len(w)])
             /\ [i \in 1..Len(w) |-> EntryName(w[i])]
                    = <<RootName>> \o FixedDirs
                          \o <<CertName, InitName, TrailerName>>
             /\ runs[r].raw = Concat(w)

(***************************************************************************)
(* C6 as stated: at every prefix of the sequence build_initramfs emits,    *)
(* the inode numbers of the entries written so far are pairwise distinct   *)
(* and strictly increasing in emission order; every file or directory      *)
(* entry is preceded by a directory entry for each of its proper path      *)
(* prefixes; the finished sequence has exactly one trailer, the last entry.*)
(***************************************************************************)
C6_EntrySequenceAllIncreasing ==
    \A r \in RunIds :
        LET w == runs[r].written
        IN /\ InodesDistinct(w)
           /\ \A i, j \in 1..Len(w) : i < j => EntryIno(w[i]) < EntryIno(w[j])
           /\ PrefixDirsFirst(w)
           /\ OneTrailerLast(r)

(***************************************************************************)
(* C6 amended: at every prefix, the inode numbers of all entries written   *)
(* so far are pairwise distinct, and those of the file and directory       *)
(* entries (root, fixed subdirectories, certificate, init) are strictly    *)
(* increasing in emission order: the trailer, written last, has inode 0.   *)
(* Every file or directory entry is preceded by a directory entry for each *)
(* of its proper path prefixes, and the finished sequence has exactly one  *)
(* trailer (name TRAILER!!!, mode 0, empty content), the last entry.       *)
(***************************************************************************)
C6_EntrySequence ==
    \A r \in RunIds :
        LET w == runs[r].written
        IN /\ InodesDistinct(w)
           /\ \A i, j \in 1..Len(w) :
                 (i < j /\ ~IsTrailer(w[i]) /\ ~IsTrailer(w[j]))
                     => EntryIno(w[i]) < EntryIno(w[j])
           /\ PrefixDirsFirst(w)
           /\ OneTrailerLast(r)

\* a finished run: ten entries, the certificate under etc/keys with inode 8
C6_Witness ==
    /\ Finished(1)
    /\ Len(runs[1].written) = 10
    /\ EntryName(runs[1].written[8]) = CertName
    /\ EntryIno(runs[1].written[8]) = 8
    /\ EntryIno(runs[1].written[10]) = 0

(***************************************************************************)
(* C8: two runs of build_initramfs on identical init bytes and identical   *)
(* certificate bytes give byte-identical archives and byte-identical       *)
(* compressed output, whatever the wall clock, the input paths, their      *)
(* timestamps and their owner; the compressed member's timestamp is zero.  *)
(***************************************************************************)
C8_Deterministic ==
    (runs[1].pc = "done" /\ runs[2].pc = "done") =>
        /\ runs[1].raw = runs[2].raw
        /\ runs[1].out = runs[2].out
        /\ SubSeq(runs[1].out, 5, 8) = <<0, 0, 0, 0>>

\* both runs finished, under different clocks and different file metadata
C8_Witness ==
    /\ runs[1].pc = "done"
    /\ runs[2].pc = "done"
    /\ runs[1].clock # runs[2].clock
    /\ runs[1].stat.path # runs[2].stat.path
    /\ runs[1].stat.mtime # runs[2].stat.mtime
    /\ runs[1].stat.uid # runs[2].stat.uid
    /\ Len(runs[1].init_data) > 1
    /\ Len(runs[1].out) > Len(runs[1].raw)

(***************************************************************************)
(* C9: in build_ext4_image a non-zero exit of mke2fs or of debugfs aborts  *)
(* the build at once: no image path is returned, no later step runs, and   *)
(* the failing step has been invoked exactly once.                         *)
(***************************************************************************)
C9_FailureAborts ==
    \A i \in InvIds :
        LET v == inv[i]
        IN /\ v.calls.mke2fs <= 1 /\ v.calls.evmctl <= 1 /\ v.calls.debugfs <= 1
           /\ v.rc.mke2fs > 0 =>
                 /\ v.pc = "raised" /\ v.raised_at = "mke2fs"
                 /\ v.result = ""
                 /\ v.calls.mke2fs = 1
                 /\ v.calls.evmctl = 0 /\ v.calls.debugfs = 0
                 /\ v.cmds = <<>> /\ v.batch = <<>>
                 /\ v.wrote \subseteq {<<v.work, "empty">>, <<v.work, "disk.img">>}
           /\ v.rc.debugfs > 0 =>
                 /\ v.pc = "raised" /\ v.raised_at = "debugfs"
                 /\ v.result = ""
                 /\ v.calls.debugfs = 1
           /\ v.result # "" =>
                 v.pc = "returned" /\ v.rc.mke2fs = 0 /\ v.rc.debugfs = 0

\* one invocation stopped by mke2fs, the other by debugfs on the signed path
C9_Witness ==
    /\ inv[1].rc.mke2fs = 1 /\ inv[1].pc = "raised"
    /\ inv[2].signed /\ inv[2].rc.debugfs = 1 /\ inv[2].pc = "raised"

(***************************************************************************)
(* C10: the ea_set of security.ima is part of the image edit if and only   *)
(* if signed is true.  On the signed path the signer's exit status is      *)
(* ignored: the build goes on to debugfs when the .sig file exists,        *)
(* whatever the signer returned, and aborts before debugfs when it does    *)
(* not.  On the unsigned path the signer is never invoked and the edit is  *)
(* only the write of /ima-test and the setting of its mode.                *)
(***************************************************************************)
PastSigCheck(v) == v.rc.evmctl # NotRun /\ v.pc # "check_sig"

C10_SignatureAttachment ==
    \A i \in InvIds :
        LET v == inv[i]
        IN /\ v.batch # <<>> =>
                 /\ (\E k \in 1..Len(v.batch) : v.batch[k] = "ea_set") <=> v.signed
                 /\ v.batch = IF v.signed
                              THEN <<"write", "set_inode_field", "ea_set">>
                              ELSE <<"write", "set_inode_field">>
           /\ v.calls.debugfs > 0 => v.batch # <<>>
           /\ ~v.signed => v.calls.evmctl = 0 /\ ~v.sig_exists
           /\ (v.signed /\ PastSigCheck(v) /\ v.sig_exists) =>
                 /\ v.raised_at \notin {"evmctl", "check_sig"}
                 /\ v.pc \in {"write_batch", "debugfs", "returned", "raised"}
                 /\ v.pc = "raised" => v.raised_at = "debugfs"
           /\ (v.signed /\ PastSigCheck(v) /\ ~v.sig_exists) =>
                 /\ v.pc = "raised" /\ v.raised_at = "check_sig"
                 /\ v.calls.debugfs = 0 /\ v.batch = <<>>

\* a signed build whose signer failed but left the .sig file returns an image
\* with the attachment, beside an unsigned build that returns one without
C10_Witness ==
    /\ inv[1].signed /\ inv[1].rc.evmctl = 1 /\ inv[1].sig_exists
    /\ inv[1].pc = "returned" /\ inv[1].batch[3] = "ea_set"
    /\ ~inv[2].signed /\ inv[2].pc = "returned" /\ Len(inv[2].batch) = 2

(***************************************************************************)
(* C1: when the emulator exceeds the timeout, run_qemu returns the text    *)
(* captured so far as its normal result and raises nothing, so the test    *)
(* goes on to its marker assertions.                                       *)
(***************************************************************************)
C1_TimeoutReturnsText ==
    (timed_out /\ tpc = "finished") =>
        /\ outcome[tcur].why # "TimeoutExpired"
        /\ outcome[tcur].asserted

(***************************************************************************)
(* C2: for every captured console text the three tests decide as the       *)
(* scenario table says: tests 1 and 3 pass exactly when the text contains  *)
(* both markers, test 2 exactly when it contains IMA-RESULT:PASS and not   *)
(* IMA-TEST-PASS, whatever the order of the markers; a text without        *)
(* IMA-RESULT:PASS fails all three.                                        *)
(***************************************************************************)
TableExpects(t, text) ==
    IF t = 2
    THEN Contains(text, MarkerVerdict) /\ ~Contains(text, MarkerRan)
    ELSE Contains(text, MarkerVerdict) /\ Contains(text, MarkerRan)

C2_ScenarioTable ==
    /\ (tcur \in TestIds /\ tpc = "finished" /\ outcome[tcur].asserted) =>
          /\ outcome[tcur].res \in {"passed", "failed"}
          /\ outcome[tcur].res = "passed" <=> TableExpects(tcur, output)
          /\ ~Contains(output, MarkerVerdict) => outcome[tcur].res = "failed"
    \* a text that run_qemu returned is always judged by the assertions
    /\ (tcur \in TestIds /\ tpc = "finished" /\ ~timed_out
            /\ outcome[tcur].why \in {"", "AssertionError"}
            /\ output # <<>>) => outcome[tcur].asserted
    /\ \A t \in TestIds : outcome[t].res = "passed" => outcome[t].asserted

\* test 2 passes on a text that holds the verdict marker and more, but not
\* the binary-ran marker, after test 1 passed on its own text
C2_Witness ==
    /\ tcur = 2
    /\ tpc = "finished"
    /\ outcome[2].res = "passed"
    /\ Contains(output, MarkerVerdict)
    /\ ~Contains(output, MarkerRan)
    /\ Len(output) > Len(MarkerVerdict)
    /\ outcome[1].res = "passed"

(***************************************************************************)
(* C3: whenever a required tool (qemu-system-x86_64, evmctl, mke2fs,       *)
(* debugfs, buck2, openssl) or /dev/kvm is missing, every dependent test   *)
(* and fixture, the session teardown included, ends skipped: a missing     *)
(* tool or device never produces a failed or error outcome.                *)
(***************************************************************************)
SomethingMissing == env.tools # ToolNames \/ ~env.kvm

C3_MissingToolSkips ==
    /\ \A t \in TestIds : outcome[t].why # "FileNotFoundError"
    /\ teardown # "FileNotFoundError"
    /\ SomethingMissing => \A t \in TestIds : outcome[t].res # "passed"

(***************************************************************************)
(* C11 as stated: when the offline metadata edit (debugfs) exits non-zero  *)
(* and the detached signature file exists, build_ext4_image still returns  *)
(* the image; only a missing signature file is fatal.                      *)
(***************************************************************************)
C11_MetadataEditFailureNonFatal ==
    \A i \in InvIds :
        LET v == inv[i]
        IN (v.signed /\ v.sig_exists /\ v.rc.debugfs > 0) =>
               v.pc = "returned" /\ v.result = "disk.img"

(***************************************************************************)
(* C11 amended: it is the signer (evmctl) whose non-zero exit is not       *)
(* fatal: with the signature file present the signed build goes on, and    *)
(* returns the image when debugfs then exits zero.  A missing signature    *)
(* file is fatal whatever the signer's status, and so is a non-zero exit   *)
(* of debugfs, signature file or not.                                      *)
(***************************************************************************)
C11_SignerFailureNonFatal ==
    \A i \in InvIds :
        LET v == inv[i]
        IN v.signed =>
              /\ (v.rc.evmctl > 0 /\ v.sig_exists) =>
                    v.raised_at \notin {"evmctl", "check_sig"}
              /\ (v.rc.evmctl > 0 /\ v.sig_exists /\ v.rc.debugfs = 0) =>
                    v.pc = "returned" /\ v.result = "disk.img"
              /\ (v.rc.evmctl # NotRun /\ ~v.sig_exists /\ v.pc # "check_sig") =>
                    v.pc = "raised" /\ v.raised_at = "check_sig" /\ v.result = ""
              /\ (v.sig_exists /\ v.rc.debugfs > 0) =>
                    v.pc = "raised" /\ v.raised_at = "debugfs" /\ v.result = ""

\* two signed builds whose signer failed and left the .sig file: debugfs exits
\* zero for one, which returns the image, and non-zero for the other
C11_Witness ==
    /\ inv[1].signed /\ inv[1].rc.evmctl = 1 /\ inv[1].sig_exists
    /\ inv[1].rc.debugfs = 1 /\ inv[1].pc = "raised"
    /\ inv[2].signed /\ inv[2].rc.evmctl = 1 /\ inv[2].sig_exists
    /\ inv[2].rc.debugfs = 0 /\ inv[2].result = "disk.img"

(***************************************************************************)
(* C12: under every interleaving of the build_ext4_image and run_qemu      *)
(* invocations that share tmp_dir, each invocation has a working directory *)
(* of its own, every file it writes is one of its named files inside that  *)
(* directory, and no two invocations write the same path.                  *)
(***************************************************************************)
AllIds == InvIds \cup QemuIds

FilesOf(a) ==
    IF a \in QemuIds
    THEN {"initramfs.cpio.gz"}
    ELSE {"disk.img", "empty", "debugfs.cmds", "ima-test", "ima-test.sig"}

C12_WorkDirsIsolated ==
    \A a \in AllIds :
        /\ inv[a].pc # "start" => inv[a].work \in tmp_names
        /\ \A path \in inv[a].wrote :
              path[1] = inv[a].work /\ path[2] \in FilesOf(a)
        /\ \A b \in AllIds \ {a} :
              /\ (inv[a].pc # "start" /\ inv[b].pc # "start") =>
                    inv[a].work # inv[b].work
              /\ inv[a].wrote \cap inv[b].wrote = {}

\* two signed builds and one emulator run have all finished, each having
\* written every one of its files
C12_Witness ==
    /\ \A i \in InvIds :
          inv[i].pc = "returned" /\ Cardinality(inv[i].wrote) = 5
    /\ \A q \in QemuIds :
          inv[q].pc = "returned" /\ Cardinality(inv[q].wrote) = 1

(***************************************************************************)
(* C13 as stated: after a buck2 run that exits zero, _buck2_build returns  *)
(* the last whitespace-separated token of the first stdout line that has   *)
(* at least two tokens, whatever stdout holds, and fails when no line has  *)
(* two tokens.                                                             *)
(***************************************************************************)
WordStarts(line) ==
    {i \in 1..Len(line) :
        line[i] \notin Whitespace /\ (i = 1 \/ line[i - 1] \in Whitespace)}

WordEnds(line) ==
    {i \in 1..Len(line) :
        line[i] \notin Whitespace
        /\ (i = Len(line) \/ line[i + 1] \in Whitespace)}

Largest(S) == CHOOSE x \in S : \A y \in S : y <= x

Smallest(S) == CHOOSE x \in S : \A y \in S : x <= y

LastToken(line) ==
    SubSeq(line, Largest(WordStarts(line)), Largest(WordEnds(line)))

TwoTokenLines(out) ==
    LET ls == splitlines(strip(out))
    IN {k \in 1..Len(ls) : Cardinality(WordStarts(ls[k])) >= 2}

RelevantLine(out) == splitlines(strip(out))[Smallest(TwoTokenLines(out))]

Buck2Parsed == b2.pc \in {"returned", "failed"}

RestOfLine(line) ==
    LET second == Smallest(WordStarts(line) \ {Smallest(WordStarts(line))})
    IN SubSeq(line, second, Len(line))

CreatedEntries == {[name |-> n, kind |-> "dir"] : n \in Drawn}

HasImaPrefix(name) ==
    Len(name) >= 4 /\ \A i \in 1..4 : name[i] = ImaPrefix[i]

InTeardown(s) == sess[s].pc \in {"loop", "raised", "done"}

C17_NoForeignCleanup ==
    \A s \in DOMAIN sess :
        sess[s].pc = "building" =>
            /\ [name |-> sess[s].cur, kind |-> "dir"] \in buck_out
            /\ sess[s].cur \notin killed
            /\ sess[s].cur \in daemons

(***************************************************************************)
(* C15: once sanitize_global_env() has run, os.environ is what clean_env() *)
(* returns on the same host environment: the whitelisted variables the     *)
(* host has set, with their host values, and every determinism pin, with   *)
(* its pinned value, and nothing else.  clean_env() itself leaves          *)
(* os.environ as it was, and a second sanitize_global_env() changes        *)
(* nothing.                                                                *)
(***************************************************************************)
PinNames ==
    {"LC_ALL", "LANG", "SOURCE_DATE_EPOCH", "CCACHE_DISABLE", "RUSTC_WRAPPER",
     "CARGO_BUILD_RUSTC_WRAPPER"}

IsCleanOf(d, host) ==
    /\ DOMAIN d = (_PASSTHROUGH \cap DOMAIN host) \cup PinNames
    /\ \A k \in DOMAIN d :
          d[k] = IF k \in PinNames THEN _DETERMINISM_PINS[k] ELSE host[k]

C15_SanitizeEqualsCleanEnv ==
    /\ sanitized = 0 => os_environ = host_environ
    /\ sanitized >= 1 =>
          /\ os_environ = clean_env(host_environ)
          /\ IsCleanOf(os_environ, host_environ)
    /\ cleaned # <<>> =>
          /\ IsCleanOf(cleaned.env, host_environ)
          /\ cleaned.on \in {host_environ, os_environ}

\* a host with a whitelisted variable, an overridden pin and two variables to
\* drop has been sanitized twice, and clean_env() was called before that
C15_Witness ==
    /\ sanitized = 2
    /\ DOMAIN host_environ = {"HOME", "LC_ALL", "PATH", "CC"}
    /\ host_environ["LC_ALL"] = <<"host">>
    /\ cleaned # <<>>
    /\ cleaned.on = host_environ
    /\ os_environ # host_environ

(***************************************************************************)
(* C16: kernel_headers.main picks the PATH mode in the order               *)
(* --hermetic-path, --hermetic-empty, --allow-host-path, and with none of  *)
(* them exits with status 1 before the build directory is made or make is  *)
(* run.  In a hermetic mode every colon-separated component of the final   *)
(* PATH is the absolute path of a --hermetic-path directory or of an       *)
(* existing --path-prepend directory, the latter in front; no component is *)
(* empty and none comes from the host PATH, which is used only when        *)
(* --allow-host-path is the mode picked.                                   *)
(***************************************************************************)
\* path.split(":"), an empty PATH counting as one without components
RECURSIVE Components(_)
Components(path) ==
    IF path = <<>> THEN <<>>
    ELSE IF \A k \in 1..Len(path) : path[k] # Colon THEN <<path>>
    ELSE LET k == Smallest({j \in 1..Len(path) : path[j] = Colon})
             rest == SubSeq(path, k + 1, Len(path))
         IN <<SubSeq(path, 1, k - 1)>>
            \o (IF rest = <<>> THEN <<<<>>>> ELSE Components(rest))

KhMode ==
    IF kh.args.hermetic_path # <<>> THEN "hermetic-path"
    ELSE IF kh.args.hermetic_empty THEN "hermetic-empty"
    ELSE IF kh.args.allow_host_path THEN "allow-host-path"
    ELSE "none"

KhPathFinal == kh.pc \in {"source_dir", "build_dir", "make"} \/ kh.make_ran

C16_PathModes ==
    /\ (kh.pc \notin {"start", "path"} /\ KhMode = "none") =>
          /\ kh.pc = "exited" /\ kh.exit = 1
          /\ ~kh.build_dir /\ ~kh.make_ran
    /\ (KhPathFinal /\ KhMode \in {"hermetic-path", "hermetic-empty"}) =>
          LET comps == Components(GetPath(os_environ))
              front == AbsAll(Existing(kh.args.path_prepend, kh.isdir))
              back == AbsAll(kh.args.hermetic_path)
          IN /\ \A k \in 1..Len(comps) : comps[k] # <<>>
             /\ Len(comps) = Len(front) + Len(back)
             /\ \A k \in 1..Len(comps) :
                   comps[k] = <<(front \o back)[k]>>
    /\ (KhPathFinal /\ KhMode = "allow-host-path") =>
          LET path == GetPath(os_environ)
              n == Len(kh.host_path)
          IN /\ Len(path) >= n
             /\ SubSeq(path, Len(path) - n + 1, Len(path)) = kh.host_path

====
